---- MODULE Spec2Model ----
(***************************************************************************)
(* Model of tools/ggen-cli/src/main.rs: the ggen ontology compiler.        *)
(*                                                                         *)
(* Rust strings are modelled as sequences of one-character strings, so     *)
(* that contains, split, last and trim_matches are computed character by   *)
(* character as the standard library computes them.                        *)
(*                                                                         *)
(* The progress narration of --verbose and the banner of main are printed  *)
(* and read by nothing: stdout holds what the dry-run branch prints.       *)
(* The graph engine and the template engine are represented by what they   *)
(* hand to main.rs: query solutions, rendered text, or an error.           *)
(***************************************************************************)
EXTENDS Integers, Sequences, FiniteSets, TLC

VARIABLES
    pc,         \* position of the run
    input,      \* argument of the type mapper run (an identifier or range string)
    call,       \* how the type mapper was reached: "none", "direct" or "range"
    mapped,     \* result of map_xsd_type: <<rust_type, python_type, typescript_type>>
    store,      \* the graph: a set of triples <<subject, predicate, object>>
    solutions,  \* extract_classes: the query solutions not yet visited, in order
    classes,    \* extract_classes: the Vec<OntologyClass> built so far
    lookups,    \* the class_iri of every extract_properties call, in order
    entries,    \* load_ontology: the directory entries not yet visited, in walk order
    err,        \* the error the run ended with, or None
    dry_run,    \* the --dry-run flag
    templates_dir_exists,   \* whether templates/ggen exists
    tera,       \* what Tera::new gives: an error, or the loaded templates in the
                \* order of get_template_names()
    queue,      \* render_templates: the templates not yet visited
    fs,         \* the output directory: whether it exists, and its files
    fs0,        \* the output directory at the start of the run
    stdout,     \* what the dry-run branch printed, one entry for each println!
    log         \* what was done for which template, in order

vars == <<pc, input, call, mapped, store, solutions, classes, lookups,
          entries, err, dry_run, templates_dir_exists, tera, queue, fs, fs0,
          stdout, log>>

loadVars == <<entries>>

renderVars == <<dry_run, templates_dir_exists, tera, queue, fs, fs0, stdout, log>>

mapVars == <<input, call, mapped>>

extractVars == <<store, solutions, classes, lookups>>

(***************************************************************************)
(* Bounds of the model.                                                    *)
(***************************************************************************)
MaxFrags == 2

MaxTriples == 4

MaxTemplates == 2

MaxExtraLines == 5

MaxFiles == 2

(***************************************************************************)
(* String primitives of the Rust standard library used by main.rs.         *)
(***************************************************************************)

Least(S) == CHOOSE x \in S : \A y \in S : x <= y

Greatest(S) == CHOOSE x \in S : \A y \in S : x >= y

\* str::contains(pat): pat occurs as a contiguous substring of s
Contains(s, pat) ==
    \E i \in 1..(Len(s) - Len(pat) + 1) : SubSeq(s, i, i + Len(pat) - 1) = pat

\* the separator set &['#', '/'][..] of the three split calls
IsSep(c) == c \in {"#", "/"}

\* the pieces of s between the positions cuts, in order, empty pieces
\* included: one piece more than there are cuts
Pieces(s, cuts) ==
    LET marks   == {0} \cup cuts \cup {Len(s) + 1}
        mark(k) == CHOOSE x \in marks : Cardinality({ y \in marks : y < x }) = k - 1
    IN  [k \in 1..(Cardinality(marks) - 1) |-> SubSeq(s, mark(k) + 1, mark(k + 1) - 1)]

\* str::split(&['#', '/'][..]): the pieces between separators; the iterator
\* always yields at least one piece
Split(s) == Pieces(s, { i \in 1..Len(s) : IsSep(s[i]) })

\* Iterator::last().unwrap_or(default)
LastOr(pieces, default) ==
    IF pieces = <<>> THEN default ELSE pieces[Len(pieces)]

\* str::trim_matches(c): s from its first to its last character other than c
TrimMatches(s, c) ==
    LET keep == { i \in 1..Len(s) : s[i] # c }
    IN  IF keep = {} THEN <<>> ELSE SubSeq(s, Least(keep), Greatest(keep))

(***************************************************************************)
(* Terms of the graph engine (oxigraph::model::Term).                      *)
(***************************************************************************)
None == [kind |-> "none"]

NamedNode(iri) == [kind |-> "iri", value |-> iri]

Literal(text) == [kind |-> "literal", value |-> text]

BlankNode(id) == [kind |-> "bnode", value |-> id]

\* Term::to_string(): <iri> for a named node, "text" for a simple literal,
\* _:id for a blank node
TermToString(t) ==
    CASE t.kind = "iri"     -> <<"<">> \o t.value \o <<">">>
      [] t.kind = "literal" -> <<"\"">> \o t.value \o <<"\"">>
      [] t.kind = "bnode"   -> <<"_", ":">> \o t.value

\* Result<Tera>: what Tera::new gives
TeraOk(templates) == [ok |-> TRUE, templates |-> templates]

TeraError == [ok |-> FALSE, templates |-> <<>>]

\* Result<String>: what tera.render gives for a template
RenderOk(text) == [ok |-> TRUE, text |-> text]

RenderError == [ok |-> FALSE, text |-> <<>>]

(***************************************************************************)
(* map_xsd_type                                                            *)
(***************************************************************************)
StringTypes   == << <<"S","t","r","i","n","g">>, <<"s","t","r">>, <<"s","t","r","i","n","g">> >>

IntegerTypes  == << <<"i","6","4">>, <<"i","n","t">>, <<"n","u","m","b","e","r">> >>

BooleanTypes  == << <<"b","o","o","l">>, <<"b","o","o","l">>, <<"b","o","o","l","e","a","n">> >>

DateTimeTypes == << <<"D","a","t","e","T","i","m","e","<","U","t","c",">">>, <<"d","a","t","e","t","i","m","e">>, <<"D","a","t","e">> >>

FloatTypes    == << <<"f","6","4">>, <<"f","l","o","a","t">>, <<"n","u","m","b","e","r">> >>

\* the same chain with the integer test ahead of the string test
map_xsd_type_int_first(xsd_type) ==
    IF Contains(xsd_type, <<"i","n","t","e","g","e","r">>) \/ Contains(xsd_type, <<"i","n","t">>) THEN IntegerTypes
    ELSE IF Contains(xsd_type, <<"s","t","r","i","n","g">>) THEN StringTypes
    ELSE IF Contains(xsd_type, <<"b","o","o","l","e","a","n">>) THEN BooleanTypes
    ELSE IF Contains(xsd_type, <<"d","a","t","e","T","i","m","e">>) THEN DateTimeTypes
    ELSE IF Contains(xsd_type, <<"d","e","c","i","m","a","l">>) \/ Contains(xsd_type, <<"f","l","o","a","t">>) THEN FloatTypes
    ELSE LET type_name ==
                 TrimMatches(LastOr(Split(xsd_type), <<"S","t","r","i","n","g">>), ">")
         IN  <<type_name, type_name, type_name>>

\* the same chain without the trim_matches('>') of the custom class branch
map_xsd_type_no_trim(xsd_type) ==
    IF Contains(xsd_type, <<"s","t","r","i","n","g">>) THEN StringTypes
    ELSE IF Contains(xsd_type, <<"i","n","t","e","g","e","r">>) \/ Contains(xsd_type, <<"i","n","t">>) THEN IntegerTypes
    ELSE IF Contains(xsd_type, <<"b","o","o","l","e","a","n">>) THEN BooleanTypes
    ELSE IF Contains(xsd_type, <<"d","a","t","e","T","i","m","e">>) THEN DateTimeTypes
    ELSE IF Contains(xsd_type, <<"d","e","c","i","m","a","l">>) \/ Contains(xsd_type, <<"f","l","o","a","t">>) THEN FloatTypes
    ELSE LET type_name == LastOr(Split(xsd_type), <<"S","t","r","i","n","g">>)
         IN  <<type_name, type_name, type_name>>

map_xsd_type(xsd_type) ==
    IF Contains(xsd_type, <<"s","t","r","i","n","g">>) THEN StringTypes
    ELSE IF Contains(xsd_type, <<"i","n","t","e","g","e","r">>) \/ Contains(xsd_type, <<"i","n","t">>) THEN IntegerTypes
    ELSE IF Contains(xsd_type, <<"b","o","o","l","e","a","n">>) THEN BooleanTypes
    ELSE IF Contains(xsd_type, <<"d","a","t","e","T","i","m","e">>) THEN DateTimeTypes
    ELSE IF Contains(xsd_type, <<"d","e","c","i","m","a","l">>) \/ Contains(xsd_type, <<"f","l","o","a","t">>) THEN FloatTypes
    ELSE \* Custom class type
         LET type_name ==
                 TrimMatches(LastOr(Split(xsd_type), <<"S","t","r","i","n","g">>), ">")
         IN  <<type_name, type_name, type_name>>

\* the same with another default for a solution without ?range
RangeString_any_uri(range) ==
    IF range = None THEN <<"x","s","d",":","a","n","y","U","R","I">> ELSE TermToString(range)

\* extract_properties: solution.get("range").map(|v| v.to_string())
\*                         .unwrap_or_else(|| "xsd:string".to_string())
RangeString(range) ==
    IF range = None THEN <<"x","s","d",":","s","t","r","i","n","g">> ELSE TermToString(range)

(***************************************************************************)
(* Inputs of the type mapper run: concatenations of at most MaxFrags       *)
(* fragments.                                                              *)
(***************************************************************************)
XSD_NS == <<"h","t","t","p",":","/","/","w","w","w",".","w","3",".","o","r","g","/","2","0","0","1","/","X","M","L","S","c","h","e","m","a","#">>

EX_NS == <<"h","t","t","p",":","/","/","e",".","o","r","g","/">>

Fragments ==
    { XSD_NS, EX_NS,
      <<"s","t","r","i","n","g">>, <<"i","n","t">>, <<"i","n","t","e","g","e","r">>, <<"b","o","o","l","e","a","n">>, <<"d","a","t","e","T","i","m","e">>, <<"d","e","c","i","m","a","l">>,
      <<"f","l","o","a","t">>, <<"S","t","r","i","n","g">>, <<"P","o","i","n","t">>, <<"F","o","o">>, <<"u","r","n",":">>,
      <<"#">>, <<"/">>, <<">">>, <<"<">> }

RECURSIVE Concats(_)
Concats(n) ==
    IF n = 0 THEN { <<>> }
    ELSE LET shorter == Concats(n - 1)
         IN  shorter \cup { s \o f : s \in shorter, f \in Fragments }

RangeStrings == Concats(MaxFrags)

\* letters of an IRI scheme
Alpha == { "a", "b", "c", "d", "e", "f", "g", "h", "i", "j", "k", "l", "m",
           "n", "o", "p", "q", "r", "s", "t", "u", "v", "w", "x", "y", "z" }

\* what the graph engine accepts as the IRI of a named node: an absolute IRI
\* (a scheme of letters, then ':'), without '<' or '>', with at most one '#'
IsIri(s) ==
    /\ \E i \in 2..Len(s) : s[i] = ":" /\ \A j \in 1..(i - 1) : s[j] \in Alpha
    /\ \A i \in 1..Len(s) : s[i] \notin {"<", ">"}
    /\ Cardinality({ i \in 1..Len(s) : s[i] = "#" }) <= 1

(***************************************************************************)
(* The type mapper run: the mapper applied to a string, directly or as     *)
(* extract_properties applies it to the range bound by a solution.         *)
(***************************************************************************)
InitMap ==
    /\ pc = "map"
    /\ input \in RangeStrings
    /\ call = "none"
    /\ mapped = <<>>
    /\ store = {}
    /\ solutions = <<>>
    /\ classes = <<>>
    /\ lookups = <<>>
    /\ entries = <<>>
    /\ err = None
    /\ dry_run = FALSE
    /\ templates_dir_exists = TRUE
    /\ tera = TeraOk(<<>>)
    /\ queue = <<>>
    /\ fs = [exists |-> FALSE, files |-> <<>>]
    /\ fs0 = [exists |-> FALSE, files |-> <<>>]
    /\ stdout = <<>>
    /\ log = <<>>

\* map_xsd_type(&input)
MapXsdType ==
    /\ pc = "map"
    /\ mapped' = map_xsd_type(input)
    /\ call' = "direct"
    /\ pc' = "mapped"
    /\ UNCHANGED <<input, extractVars, loadVars, err, renderVars>>

\* extract_properties on a solution whose ?range is the named node <input>
MapRange ==
    /\ pc = "map"
    /\ IsIri(input)
    /\ mapped' = map_xsd_type(RangeString(NamedNode(input)))
    /\ call' = "range"
    /\ pc' = "mapped"
    /\ UNCHANGED <<input, extractVars, loadVars, err, renderVars>>

NextMap == MapXsdType \/ MapRange

SpecMap == InitMap /\ [][NextMap]_vars

(***************************************************************************)
(* Properties of the type mapper.                                          *)
(***************************************************************************)

\* the classification table of the type mapper, in its stated order
RefRules ==
    << [pats |-> { <<"s","t","r","i","n","g">> },              out |-> << <<"S","t","r","i","n","g">>, <<"s","t","r">>, <<"s","t","r","i","n","g">> >>],
       [pats |-> { <<"i","n","t","e","g","e","r">>, <<"i","n","t">> },    out |-> << <<"i","6","4">>, <<"i","n","t">>, <<"n","u","m","b","e","r">> >>],
       [pats |-> { <<"b","o","o","l","e","a","n">> },             out |-> << <<"b","o","o","l">>, <<"b","o","o","l">>, <<"b","o","o","l","e","a","n">> >>],
       [pats |-> { <<"d","a","t","e","T","i","m","e">> },            out |-> << <<"D","a","t","e","T","i","m","e","<","U","t","c",">">>, <<"d","a","t","e","t","i","m","e">>, <<"D","a","t","e">> >>],
       [pats |-> { <<"d","e","c","i","m","a","l">>, <<"f","l","o","a","t">> },  out |-> << <<"f","6","4">>, <<"f","l","o","a","t">>, <<"n","u","m","b","e","r">> >>] >>

\* the text after the last '#' or '/' of s (all of s when it has neither)
AfterLastSep(s) ==
    LET seps == { i \in 1..Len(s) : IsSep(s[i]) }
    IN  IF seps = {} THEN s ELSE SubSeq(s, Greatest(seps) + 1, Len(s))

HasSep(s) == \E i \in 1..Len(s) : IsSep(s[i])

\* s without the '>' characters at its two ends: the part r of s = a r b
\* with a and b made of '>' alone and r neither starting nor ending in '>'
WithoutAngles(s) ==
    LET AllAngles(i, j) == \A k \in i..j : s[k] = ">"
        ends == { p \in (0..Len(s)) \X (1..(Len(s) + 1)) :
                    /\ p[1] < p[2]
                    /\ AllAngles(1, p[1]) /\ AllAngles(p[2], Len(s))
                    /\ p[2] - p[1] > 1 => s[p[1] + 1] # ">" /\ s[p[2] - 1] # ">"
                    /\ p[2] - p[1] = 1 => p[1] = Len(s) }
        e == CHOOSE p \in ends : TRUE
    IN  SubSeq(s, e[1] + 1, e[2] - 1)

\* the reference classifier: the first rule of RefRules with a pattern that
\* occurs in s decides; with no such rule, s is a reference to a class
RefClassify(s) ==
    LET hits == { i \in 1..Len(RefRules) : \E p \in RefRules[i].pats : Contains(s, p) }
        ref  == WithoutAngles(AfterLastSep(s))
    IN  IF hits = {} THEN <<ref, ref, ref>> ELSE RefRules[Least(hits)].out

IsTypeName(t) == DOMAIN t = 1..Len(t)

\* C6: map_xsd_type is total and classifies by first match in the order
\* string, integer/int, boolean, dateTime, decimal/float, reference: its
\* result is that of the reference classifier, a string containing "string"
\* yields (String, str, string) whatever else it contains, and the result
\* always holds one type name per target language.
C6_FirstMatchOrder ==
    (pc = "mapped" /\ call = "direct") =>
        /\ mapped = RefClassify(input)
        /\ (Contains(input, <<"s","t","r","i","n","g">>) => mapped = << <<"S","t","r","i","n","g">>, <<"s","t","r">>, <<"s","t","r","i","n","g">> >>)
        /\ Len(mapped) = 3
        /\ \A k \in 1..3 : IsTypeName(mapped[k])

\* a mapped string in which "string" occurs together with a pattern of a
\* later rule
C6_Witness ==
    /\ pc = "mapped" /\ call = "direct"
    /\ Contains(input, <<"s","t","r","i","n","g">>)
    /\ Contains(input, <<"i","n","t">>) \/ Contains(input, <<"f","l","o","a","t">>)
    /\ mapped = << <<"S","t","r","i","n","g">>, <<"s","t","r">>, <<"s","t","r","i","n","g">> >>

\* the primitive ontology datatypes
PrimitiveDatatypes ==
    { XSD_NS \o p : p \in { <<"s","t","r","i","n","g">>, <<"i","n","t","e","g","e","r">>, <<"i","n","t">>, <<"b","o","o","l","e","a","n">>,
                            <<"d","a","t","e","T","i","m","e">>, <<"d","e","c","i","m","a","l">>, <<"f","l","o","a","t">> } }

PrimitiveWords ==
    { <<"s","t","r","i","n","g">>, <<"i","n","t">>, <<"b","o","o","l","e","a","n">>, <<"d","a","t","e","T","i","m","e">>, <<"d","e","c","i","m","a","l">>, <<"f","l","o","a","t">> }

RDF_TYPE == "rdf:type"

RDFS_LABEL == "rdfs:label"

RDFS_COMMENT == "rdfs:comment"

RDFS_DOMAIN == "rdfs:domain"

RDFS_RANGE == "rdfs:range"

\* PREFIX rdfs:, PREFIX rdf:, PREFIX owl: of the class query
RDFS_NS == <<"h","t","t","p",":","/","/","w","w","w",".","w","3",".","o","r","g","/","2","0","0","0","/","0","1","/","r","d","f","-","s","c","h","e","m","a","#">>

RDF_NS == <<"h","t","t","p",":","/","/","w","w","w",".","w","3",".","o","r","g","/","1","9","9","9","/","0","2","/","2","2","-","r","d","f","-","s","y","n","t","a","x","-","n","s","#">>

OWL_NS == <<"h","t","t","p",":","/","/","w","w","w",".","w","3",".","o","r","g","/","2","0","0","2","/","0","7","/","o","w","l","#">>

\* VALUES ?classType { rdfs:Class owl:Class }
ClassTypes == { NamedNode(RDFS_NS \o <<"C","l","a","s","s">>), NamedNode(OWL_NS \o <<"C","l","a","s","s">>) }

\* the characters of the model's identifiers in code point order
AsciiOrder ==
    << "#", "-", ".", "/", "0", "1", "2", "3", "4", "5", "6", "7", "8", "9", ":",
       "A", "B", "C", "D", "E", "F", "G", "H", "I", "J", "K", "L", "M",
       "N", "O", "P", "Q", "R", "S", "T", "U", "V", "W", "X", "Y", "Z", "_",
       "a", "b", "c", "d", "e", "f", "g", "h", "i", "j", "k", "l", "m",
       "n", "o", "p", "q", "r", "s", "t", "u", "v", "w", "x", "y", "z" >>

Ord(c) == CHOOSE i \in 1..Len(AsciiOrder) : AsciiOrder[i] = c

\* a precedes b in code point order
StrLess(a, b) ==
    \/ Len(a) < Len(b) /\ SubSeq(b, 1, Len(a)) = a
    \/ \E k \in 1..Len(a) :
          /\ k <= Len(b)
          /\ SubSeq(a, 1, k - 1) = SubSeq(b, 1, k - 1)
          /\ Ord(a[k]) < Ord(b[k])

\* ORDER BY on terms: blank nodes precede IRIs, IRIs are compared as strings
TermLess(a, b) ==
    \/ a.kind = "bnode" /\ b.kind = "iri"
    \/ a.kind = b.kind /\ StrLess(a.value, b.value)

\* the objects o of the triples <<s, p, o>> of the graph
Objects(g, s, p) == { t[3] : t \in { u \in g : u[1] = s /\ u[2] = p } }

\* OPTIONAL { s p ?v }: every object, or the variable left unbound
Optional(g, s, p) == IF Objects(g, s, p) = {} THEN { None } ELSE Objects(g, s, p)

\* SELECT DISTINCT ?class ?label ?comment WHERE { ?class a ?classType .
\*   VALUES ?classType { rdfs:Class owl:Class }
\*   OPTIONAL { ?class rdfs:label ?label }
\*   OPTIONAL { ?class rdfs:comment ?comment } }
ClassSolutions(g) ==
    UNION { { [class |-> c, label |-> l, comment |-> m] :
                l \in Optional(g, c, RDFS_LABEL), m \in Optional(g, c, RDFS_COMMENT) } :
            c \in { u[1] : u \in { v \in g : v[2] = RDF_TYPE /\ v[3] \in ClassTypes } } }

\* ORDER BY ?class: the orders of the solutions S that ascend by ?class;
\* the order among solutions of one class is the engine's
RECURSIVE OrderByClass(_)
OrderByClass(S) ==
    IF S = {} THEN { <<>> }
    ELSE UNION { { <<x>> \o rest : rest \in OrderByClass(S \ {x}) } :
                 x \in { y \in S : \A z \in S : ~TermLess(z.class, y.class) } }

\* SELECT DISTINCT ?property ?label ?comment ?range WHERE {
\*   ?property rdfs:domain <class_iri> .
\*   OPTIONAL { ?property rdfs:label ?label }
\*   OPTIONAL { ?property rdfs:comment ?comment }
\*   OPTIONAL { ?property rdfs:range ?range } }
PropertySolutions(g, class_iri) ==
    UNION { { [property |-> p, label |-> l, comment |-> m, range |-> r] :
                l \in Optional(g, p, RDFS_LABEL), m \in Optional(g, p, RDFS_COMMENT),
                r \in Optional(g, p, RDFS_RANGE) } :
            p \in { u[1] : u \in { v \in g : v[2] = RDFS_DOMAIN
                                              /\ v[3] = NamedNode(class_iri) } } }

\* ORDER BY ?property
RECURSIVE OrderByProperty(_)
OrderByProperty(S) ==
    IF S = {} THEN { <<>> }
    ELSE UNION { { <<x>> \o rest : rest \in OrderByProperty(S \ {x}) } :
                 x \in { y \in S : \A z \in S : ~TermLess(z.property, y.property) } }

(***************************************************************************)
(* extract_properties and extract_classes                                  *)
(***************************************************************************)

\* solution.get("comment").map(|v| v.to_string().trim_matches('"').to_string())
\*     .unwrap_or_default()
CommentOf(comment) ==
    IF comment = None THEN <<>> ELSE TrimMatches(TermToString(comment), "\"")

\* the body of the loop of extract_properties for one solution: the Property
\* pushed (term is not a field of the struct: it records the ?property the
\* Property was built from)
PropertyOf(solution) ==
    LET prop_uri  == TermToString(solution.property)
        prop_name == TrimMatches(LastOr(Split(prop_uri), <<"u","n","k","n","o","w","n">>), ">")
        types     == map_xsd_type(RangeString(solution.range))
    IN  [ name            |-> prop_name,
          comment         |-> CommentOf(solution.comment),
          rust_type       |-> types[1],
          python_type     |-> types[2],
          typescript_type |-> types[3],
          optional        |-> FALSE,
          term            |-> solution.property ]

\* extract_properties(store, class_iri): the Vec<Property> it can return, one
\* for each order the engine can give the solutions
extract_properties(g, class_iri) ==
    { [i \in 1..Len(order) |-> PropertyOf(order[i])] :
        order \in OrderByProperty(PropertySolutions(g, class_iri)) }

\* the same test for the OWL namespace alone
IsBuiltin_owl_only(class_iri) == Contains(class_iri, <<"w","w","w",".","w","3",".","o","r","g","/","2","0","0","2","/","0","7","/","o","w","l">>)

\* if class_iri.contains("www.w3.org") { continue; }
IsBuiltin(class_iri) == Contains(class_iri, <<"w","w","w",".","w","3",".","o","r","g">>)

\* class_iri.split(&['#', '/'][..]).last().unwrap_or("Unknown")
ClassName(class_iri) == LastOr(Split(class_iri), <<"U","n","k","n","o","w","n">>)

\* extract_classes: the query is run
ExtractClassesQuery ==
    /\ pc = "extract"
    /\ \E order \in OrderByClass(ClassSolutions(store)) : solutions' = order
    /\ classes' = <<>>
    /\ pc' = "extracting"
    /\ UNCHANGED <<mapVars, store, lookups, loadVars, err, renderVars>>

\* extract_classes: one turn of the loop over the solutions (iri is not a
\* field of the struct: it records the class_iri the OntologyClass was built
\* from)
ExtractClassesStep ==
    /\ pc = "extracting"
    /\ solutions # <<>>
    /\ LET solution   == Head(solutions)
           class_term == solution.class
       IN  /\ solutions' = Tail(solutions)
           /\ IF class_term.kind # "iri"
              THEN UNCHANGED <<classes, lookups>>
              ELSE LET class_iri == class_term.value
                   IN  IF IsBuiltin(class_iri)
                       THEN UNCHANGED <<classes, lookups>>
                       ELSE \E properties \in extract_properties(store, class_iri) :
                               /\ lookups' = Append(lookups, class_iri)
                               /\ classes' = Append(classes,
                                      [ name       |-> ClassName(class_iri),
                                        comment    |-> CommentOf(solution.comment),
                                        properties |-> properties,
                                        iri        |-> class_iri ])
    /\ UNCHANGED <<pc, mapVars, store, loadVars, err, renderVars>>

\* extract_classes: Ok(classes)
ExtractClassesReturn ==
    /\ pc = "extracting"
    /\ solutions = <<>>
    /\ pc' = "extracted"
    /\ UNCHANGED <<mapVars, extractVars, loadVars, err, renderVars>>

(***************************************************************************)
(* The class discovery run: extract_classes on every graph of at most      *)
(* MaxTriples triples of TripleUniverse.                                   *)
(***************************************************************************)
Foo == NamedNode(EX_NS \o <<"F","o","o">>)

Bar == NamedNode(EX_NS \o <<"s","#","B","a","r">>)

Root == NamedNode(EX_NS)

Urn == NamedNode(<<"u","r","n",":","F","o","o">>)

OwlThing == NamedNode(OWL_NS \o <<"T","h","i","n","g">>)

RdfsClass == NamedNode(RDFS_NS \o <<"C","l","a","s","s">>)

RdfList == NamedNode(RDF_NS \o <<"L","i","s","t">>)

PropName == NamedNode(EX_NS \o <<"n","a","m","e">>)

PropAge == NamedNode(EX_NS \o <<"s","#","a","g","e">>)

TripleUniverse ==
    { <<Foo, RDF_TYPE, NamedNode(RDFS_NS \o <<"C","l","a","s","s">>)>>,
      <<Foo, RDF_TYPE, NamedNode(OWL_NS \o <<"C","l","a","s","s">>)>>,
      <<Bar, RDF_TYPE, NamedNode(OWL_NS \o <<"C","l","a","s","s">>)>>,
      <<Root, RDF_TYPE, NamedNode(OWL_NS \o <<"C","l","a","s","s">>)>>,
      <<Urn, RDF_TYPE, NamedNode(RDFS_NS \o <<"C","l","a","s","s">>)>>,
      <<OwlThing, RDF_TYPE, NamedNode(OWL_NS \o <<"C","l","a","s","s">>)>>,
      <<RdfsClass, RDF_TYPE, NamedNode(RDFS_NS \o <<"C","l","a","s","s">>)>>,
      <<RdfList, RDF_TYPE, NamedNode(RDFS_NS \o <<"C","l","a","s","s">>)>>,
      <<BlankNode(<<"b","0">>), RDF_TYPE, NamedNode(OWL_NS \o <<"C","l","a","s","s">>)>>,
      <<Foo, RDFS_LABEL, Literal(<<"F","o","o">>)>>,
      <<Foo, RDFS_LABEL, Literal(<<"F","u">>)>>,
      <<Foo, RDFS_COMMENT, Literal(<<"A"," ","f","o","o">>)>>,
      <<Bar, RDFS_COMMENT, Literal(<<"A"," ","b","a","r">>)>>,
      <<PropName, RDFS_DOMAIN, Foo>>,
      <<PropName, RDFS_RANGE, Bar>>,
      <<PropName, RDFS_LABEL, Literal(<<"n","a","m","e">>)>>,
      <<PropAge, RDFS_DOMAIN, Foo>>,
      <<PropAge, RDFS_DOMAIN, OwlThing>>,
      <<PropAge, RDFS_RANGE, NamedNode(XSD_NS \o <<"i","n","t","e","g","e","r">>)>> }

RECURSIVE Graphs(_)
Graphs(n) ==
    IF n = 0 THEN { {} }
    ELSE LET smaller == Graphs(n - 1)
         IN  smaller \cup { g \cup {t} : g \in smaller, t \in TripleUniverse }

InitExtract ==
    /\ pc = "extract"
    /\ store \in Graphs(MaxTriples)
    /\ solutions = <<>>
    /\ classes = <<>>
    /\ lookups = <<>>
    /\ input = <<>>
    /\ call = "none"
    /\ mapped = <<>>
    /\ entries = <<>>
    /\ err = None
    /\ dry_run = FALSE
    /\ templates_dir_exists = TRUE
    /\ tera = TeraOk(<<>>)
    /\ queue = <<>>
    /\ fs = [exists |-> FALSE, files |-> <<>>]
    /\ fs0 = [exists |-> FALSE, files |-> <<>>]
    /\ stdout = <<>>
    /\ log = <<>>

NextExtract == ExtractClassesQuery \/ ExtractClassesStep \/ ExtractClassesReturn

SpecExtract == InitExtract /\ [][NextExtract]_vars

(***************************************************************************)
(* Properties of class discovery and property resolution.                  *)
(***************************************************************************)

\* C3: extract_classes returns the classes deduplicated by resource
\* identity and in lexicographic order of class identifier: the identifiers
\* of the returned sequence are strictly ascending, so each identifier
\* produces at most one OntologyClass.
C3_StrictlyAscendingByIdentifier ==
    pc = "extracted" =>
        \A i \in 1..Len(classes) : \A j \in 1..Len(classes) :
            i < j => StrLess(classes[i].iri, classes[j].iri)

\* the text after the last '#' or '/' of an identifier that has one
EndsInSepName(iri) == HasSep(iri) /\ AfterLastSep(iri) # <<>>

\* C4: every OntologyClass has a non-empty name: "Foo" for an identifier
\* ending in #Foo or /Foo, and "Unknown" when the identifier has neither
\* '#' nor '/' or nothing follows its last separator.
C4_NameNeverEmpty ==
    pc = "extracted" =>
        \A i \in 1..Len(classes) :
            /\ classes[i].name # <<>>
            /\ IF EndsInSepName(classes[i].iri)
               THEN classes[i].name = AfterLastSep(classes[i].iri)
               ELSE classes[i].name = <<"U","n","k","n","o","w","n">>

\* an identifier within the RDF, RDFS or OWL vocabulary namespace
InReserved(iri) ==
    \E ns \in { RDF_NS, RDFS_NS, OWL_NS } :
        Len(iri) >= Len(ns) /\ SubSeq(iri, 1, Len(ns)) = ns

\* C8: no class whose identifier lies within the reserved RDF/RDFS/OWL
\* namespace is ever in the result of extract_classes, and
\* extract_properties is never called for such a class.
C8_ReservedNeverMaterialized ==
    /\ \A i \in 1..Len(classes) : ~InReserved(classes[i].iri)
    /\ \A i \in 1..Len(lookups) : ~InReserved(lookups[i])

\* a finished discovery on a graph that types a reserved identifier as a
\* class and declares a property for it, with another class discovered
C8_Witness ==
    /\ pc = "extracted"
    /\ <<OwlThing, RDF_TYPE, NamedNode(OWL_NS \o <<"C","l","a","s","s">>)>> \in store
    /\ <<PropAge, RDFS_DOMAIN, OwlThing>> \in store
    /\ Len(classes) = 1
    /\ classes[1].iri = Foo.value

\* the properties of the graph g declared with domain class_iri and without
\* a range
RangelessProperties(g, class_iri) ==
    { t[1] : t \in { u \in g : /\ u[2] = RDFS_DOMAIN
                               /\ u[3] = NamedNode(class_iri)
                               /\ Objects(g, u[1], RDFS_RANGE) = {} } }

\* C10: every property whose declared domain is a discovered class and that
\* has no declared range yields a Property of that class, and each Property
\* it yields has the string types (String, str, string) and optional = false.
C10_NoRangeIsString ==
    \A i \in 1..Len(classes) :
        \A p \in RangelessProperties(store, classes[i].iri) :
            LET props == classes[i].properties
                from  == { k \in 1..Len(props) : props[k].term = p }
            IN  /\ from # {}
                /\ \A k \in from :
                      /\ props[k].rust_type = <<"S","t","r","i","n","g">>
                      /\ props[k].python_type = <<"s","t","r">>
                      /\ props[k].typescript_type = <<"s","t","r","i","n","g">>
                      /\ props[k].optional = FALSE

\* a class discovered with a property without range next to one with a range
C10_Witness ==
    /\ pc = "extracted"
    /\ Objects(store, PropName, RDFS_RANGE) = {}
    /\ Objects(store, PropAge, RDFS_RANGE) # {}
    /\ Len(classes) = 1
    /\ Len(classes[1].properties) = 2
    /\ classes[1].properties[1].term = PropName
    /\ classes[1].properties[1].rust_type = <<"S","t","r","i","n","g">>
    /\ classes[1].properties[2].rust_type = <<"i","6","4">>

(***************************************************************************)
(* render_templates                                                        *)
(***************************************************************************)
PreviewLines == 20

\* str::lines(): the pieces between line feeds; a last empty piece is not a
\* line
Lines(s) ==
    LET pieces == Pieces(s, { i \in 1..Len(s) : s[i] = "\n" })
    IN  IF pieces[Len(pieces)] = <<>> THEN SubSeq(pieces, 1, Len(pieces) - 1)
        ELSE pieces

\* Iterator::take(n)
Take(seq, n) == SubSeq(seq, 1, IF Len(seq) < n THEN Len(seq) ELSE n)

\* [&str]::join("\n")
RECURSIVE Join(_)
Join(lines) ==
    IF lines = <<>> THEN <<>>
    ELSE IF Len(lines) = 1 THEN lines[1]
    ELSE LET half == Len(lines) \div 2
         IN  Join(SubSeq(lines, 1, half)) \o <<"\n">>
                 \o Join(SubSeq(lines, half + 1, Len(lines)))

\* Display of an unsigned integer
RECURSIVE Decimal(_)
Decimal(n) ==
    LET digit == <<"0", "1", "2", "3", "4", "5", "6", "7", "8", "9">>[(n % 10) + 1]
    IN  IF n < 10 THEN <<digit>> ELSE Append(Decimal(n \div 10), digit)

\* the --to directory as displayed
OutputDir == <<"o","u","t">>

\* PathBuf::from(template_name).file_stem(): the last component of the path
\* without its last extension
FileStem(template_name) ==
    LET comps == { i \in 1..Len(template_name) : template_name[i] = "/" }
        fname == IF comps = {} THEN template_name
                 ELSE SubSeq(template_name, Greatest(comps) + 1, Len(template_name))
        dots  == { i \in 2..Len(fname) : fname[i] = "." }
    IN  IF dots = {} THEN fname ELSE SubSeq(fname, 1, Greatest(dots) - 1)

\* the dry-run branch with the remaining-line message from 20 lines on
Preview_from_twenty(output_file, output) ==
    LET lines == Lines(output)
    IN  << <<"\\","n","-","-","-"," ">> \o OutputDir \o <<"/">> \o output_file \o <<" ","-","-","-">>,
           Join(Take(lines, PreviewLines)) >>
        \o IF Len(lines) >= PreviewLines
           THEN << <<".",".","."," ","(">> \o Decimal(Len(lines) - PreviewLines) \o <<" ","m","o","r","e"," ","l","i","n","e","s",")">> >>
           ELSE << >>

\* the dry-run branch: the three println! of one template
Preview(output_file, output) ==
    LET lines == Lines(output)
    IN  << <<"\\","n","-","-","-"," ">> \o OutputDir \o <<"/">> \o output_file \o <<" ","-","-","-">>,
           Join(Take(lines, PreviewLines)) >>
        \o IF Len(lines) > PreviewLines
           THEN << <<".",".","."," ","(">> \o Decimal(Len(lines) - PreviewLines) \o <<" ","m","o","r","e"," ","l","i","n","e","s",")">> >>
           ELSE << >>

\* anyhow's with_context: the cause and the message put on it
Error(cause, context) == [cause |-> cause, context |-> context]

Fail(e) == pc' = "failed" /\ err' = e

\* render_templates up to its loop: Tera::new, then create_dir_all unless
\* dry_run; create_dir_all creates the directory or fails
RenderBegin_always_create ==
    /\ pc = "render"
    /\ IF ~tera.ok
       THEN /\ Fail(Error("load_templates", <<"F","a","i","l","e","d"," ","t","o"," ","l","o","a","d"," ","t","e","m","p","l","a","t","e","s"," ","f","r","o","m"," ","t","e","m","p","l","a","t","e","s","/","g","g","e","n">>))
            /\ UNCHANGED <<queue, fs>>
       ELSE \/ /\ fs' = [fs EXCEPT !.exists = TRUE]
               /\ queue' = tera.templates
               /\ pc' = "rendering"
               /\ UNCHANGED err
            \/ /\ ~fs.exists
               /\ Fail(Error("create_dir", <<"F","a","i","l","e","d"," ","t","o"," ","c","r","e","a","t","e"," ","o","u","t","p","u","t"," ","d","i","r","e","c","t","o","r","y",":"," ">> \o OutputDir))
               /\ UNCHANGED <<queue, fs>>
    /\ UNCHANGED <<mapVars, extractVars, loadVars, dry_run, templates_dir_exists,
                   tera, fs0, stdout, log>>

RenderBegin ==
    /\ pc = "render"
    /\ IF ~tera.ok
       THEN /\ Fail(Error("load_templates", <<"F","a","i","l","e","d"," ","t","o"," ","l","o","a","d"," ","t","e","m","p","l","a","t","e","s"," ","f","r","o","m"," ","t","e","m","p","l","a","t","e","s","/","g","g","e","n">>))
            /\ UNCHANGED <<queue, fs>>
       ELSE IF dry_run
       THEN /\ queue' = tera.templates
            /\ pc' = "rendering"
            /\ UNCHANGED <<err, fs>>
       ELSE \/ /\ fs' = [fs EXCEPT !.exists = TRUE]
               /\ queue' = tera.templates
               /\ pc' = "rendering"
               /\ UNCHANGED err
            \/ /\ ~fs.exists
               /\ Fail(Error("create_dir", <<"F","a","i","l","e","d"," ","t","o"," ","c","r","e","a","t","e"," ","o","u","t","p","u","t"," ","d","i","r","e","c","t","o","r","y",":"," ">> \o OutputDir))
               /\ UNCHANGED <<queue, fs>>
    /\ UNCHANGED <<mapVars, extractVars, loadVars, dry_run, templates_dir_exists,
                   tera, fs0, stdout, log>>

Event(template_name, what) == [template |-> template_name, what |-> what]

\* fs::write(&output_path, output) succeeds: the file holds output
Written(output_file, output) ==
    [fs EXCEPT !.files = (output_file :> output) @@ @]

\* fs::write(&output_path, output) fails: the file is as before (it could not
\* be opened), or is left created and truncated (the write failed after the
\* open)
WriteFailed(output_file) ==
    { fs, [fs EXCEPT !.files = (output_file :> <<>>) @@ @] }

\* a render error skips the template instead of ending the run
RenderTemplate_skip_on_error ==
    /\ pc = "rendering"
    /\ queue # <<>>
    /\ LET template      == Head(queue)
           template_name == template.name
           output_file   == FileStem(template_name)
       IN  /\ queue' = Tail(queue)
           /\ IF ~template.output.ok
              THEN UNCHANGED <<pc, err, fs, stdout, log>>
              ELSE IF dry_run
              THEN /\ stdout' = stdout \o Preview(output_file, template.output.text)
                   /\ log' = log \o << Event(template_name, "rendered"),
                                       Event(template_name, "previewed") >>
                   /\ UNCHANGED <<pc, err, fs>>
              ELSE \/ /\ fs' = Written(output_file, template.output.text)
                      /\ log' = log \o << Event(template_name, "rendered"),
                                          Event(template_name, "written") >>
                      /\ UNCHANGED <<pc, err, stdout>>
                   \/ /\ fs' \in WriteFailed(output_file)
                      /\ log' = Append(log, Event(template_name, "rendered"))
                      /\ Fail(Error("write", <<"F","a","i","l","e","d"," ","t","o"," ","w","r","i","t","e"," ">> \o OutputDir
                                            \o <<"/">> \o output_file))
                      /\ UNCHANGED stdout
    /\ UNCHANGED <<mapVars, extractVars, loadVars, dry_run, templates_dir_exists,
                   tera, fs0>>

\* render_templates: one turn of the loop over tera.get_template_names()
RenderTemplate ==
    /\ pc = "rendering"
    /\ queue # <<>>
    /\ LET template      == Head(queue)
           template_name == template.name
           output_file   == FileStem(template_name)
       IN  /\ queue' = Tail(queue)
           /\ IF ~template.output.ok
              THEN /\ Fail(Error("render", <<"F","a","i","l","e","d"," ","t","o"," ","r","e","n","d","e","r"," ","t","e","m","p","l","a","t","e",":"," ">>
                                              \o template_name))
                   /\ UNCHANGED <<fs, stdout, log>>
              ELSE IF dry_run
              THEN /\ stdout' = stdout \o Preview(output_file, template.output.text)
                   /\ log' = log \o << Event(template_name, "rendered"),
                                       Event(template_name, "previewed") >>
                   /\ UNCHANGED <<pc, err, fs>>
              ELSE \/ /\ fs' = Written(output_file, template.output.text)
                      /\ log' = log \o << Event(template_name, "rendered"),
                                          Event(template_name, "written") >>
                      /\ UNCHANGED <<pc, err, stdout>>
                   \/ /\ fs' \in WriteFailed(output_file)
                      /\ log' = Append(log, Event(template_name, "rendered"))
                      /\ Fail(Error("write", <<"F","a","i","l","e","d"," ","t","o"," ","w","r","i","t","e"," ">> \o OutputDir
                                            \o <<"/">> \o output_file))
                      /\ UNCHANGED stdout
    /\ UNCHANGED <<mapVars, extractVars, loadVars, dry_run, templates_dir_exists,
                   tera, fs0>>

\* render_templates returns Ok(()) and main ends with Ok(())
RenderReturn ==
    /\ pc = "rendering"
    /\ queue = <<>>
    /\ pc' = "ok"
    /\ UNCHANGED <<mapVars, extractVars, loadVars, err, renderVars>>

(***************************************************************************)
(* The rendering run: render_templates on every list of at most            *)
(* MaxTemplates templates, with and without dry_run, on an output          *)
(* directory that is absent, empty or holds a file of an earlier run.      *)
(***************************************************************************)

\* a text of n lines, the k-th line being the decimal numeral of k, with or
\* without a line feed after the last line
Numbered(n) == [k \in 1..n |-> Decimal(k)]

Text(n, terminated) ==
    Join(Numbered(n)) \o IF terminated /\ n > 0 THEN <<"\n">> ELSE <<>>

LineCounts ==
    { 0, 1, PreviewLines, PreviewLines + 1, PreviewLines + MaxExtraLines }

Outputs ==
    { RenderOk(Text(n, TRUE)) : n \in LineCounts }
        \cup { RenderOk(Text(PreviewLines + 1, FALSE)), RenderError }

TemplateNames == { <<"m","o","d","e","l",".","r","s",".","t","e","r","a">>, <<"r","u","s","t","/","m","o","d","e","l",".","r","s",".","t","e","r","a">>, <<"p","y","/","m","o","d","e","l",".","p","y",".","t","e","r","a">> }

Templates == [name : TemplateNames, output : Outputs]

\* the lists of at most n templates with different names
RECURSIVE TemplateLists(_)
TemplateLists(n) ==
    IF n = 0 THEN { <<>> }
    ELSE LET shorter == TemplateLists(n - 1)
         IN  shorter \cup
             { Append(p[1], p[2]) :
                 p \in { q \in shorter \X Templates :
                           \A i \in 1..Len(q[1]) : q[1][i].name # q[2].name } }

\* the output directory before the run
OutputDirs ==
    { [exists |-> FALSE, files |-> <<>>],
      [exists |-> TRUE, files |-> <<>>],
      [exists |-> TRUE, files |-> (<<"m","o","d","e","l",".","r","s">> :> <<"s","t","a","l","e","\\","n">>)] }

InitRender ==
    /\ pc = "render"
    /\ dry_run \in BOOLEAN
    /\ templates_dir_exists = TRUE
    /\ tera \in { TeraError } \cup { TeraOk(l) : l \in TemplateLists(MaxTemplates) }
    /\ queue = <<>>
    /\ fs \in OutputDirs
    /\ fs0 = fs
    /\ stdout = <<>>
    /\ log = <<>>
    /\ err = None
    /\ entries = <<>>
    /\ store = {}
    /\ solutions = <<>>
    /\ classes = <<>>
    /\ lookups = <<>>
    /\ input = <<>>
    /\ call = "none"
    /\ mapped = <<>>

NextRender == RenderBegin \/ RenderTemplate \/ RenderReturn

SpecRender == InitRender /\ [][NextRender]_vars

(***************************************************************************)
(* load_ontology and main                                                  *)
(***************************************************************************)

\* e.path().extension().map_or(false, |ext| ext == "ttl")
HasTtlExtension(path) ==
    LET comps == { i \in 1..Len(path) : path[i] = "/" }
        fname == IF comps = {} THEN path
                 ELSE SubSeq(path, Greatest(comps) + 1, Len(path))
        dots  == { i \in 2..Len(fname) : fname[i] = "." }
    IN  dots # {} /\ SubSeq(fname, Greatest(dots) + 1, Len(fname)) = <<"t","t","l">>

\* load_ontology: one turn of the loop over the directory walk. An entry
\* without the ttl extension is passed over; read_to_string fails with the
\* context "Failed to read <path>"; load_from_reader fails with the parser's
\* error, on which no context is put. On a failure the entry stays at the
\* head of entries.
LoadEntry ==
    /\ pc = "load"
    /\ entries # <<>>
    /\ LET entry == Head(entries)
           path  == entry.path
       IN  IF ~HasTtlExtension(path)
           THEN /\ entries' = Tail(entries)
                /\ UNCHANGED <<pc, err, store>>
           ELSE IF ~entry.readable
           THEN /\ Fail(Error("read", <<"F","a","i","l","e","d"," ","t","o"," ","r","e","a","d"," ">> \o path))
                /\ UNCHANGED <<entries, store>>
           ELSE IF ~entry.wellformed
           THEN /\ Fail(Error("parse", <<>>))
                /\ UNCHANGED <<entries, store>>
           ELSE /\ store' = store \cup entry.triples
                /\ entries' = Tail(entries)
                /\ UNCHANGED <<pc, err>>
    /\ UNCHANGED <<mapVars, solutions, classes, lookups, renderVars>>

\* load_ontology returns Ok(store); main goes on to extract_classes
LoadReturn ==
    /\ pc = "load"
    /\ entries = <<>>
    /\ pc' = "extract"
    /\ UNCHANGED <<mapVars, extractVars, loadVars, err, renderVars>>

\* main: if !templates_dir.exists() { anyhow::bail!(...) }
TemplatesDirCheck ==
    /\ pc = "extracted"
    /\ IF templates_dir_exists
       THEN pc' = "render" /\ UNCHANGED err
       ELSE Fail(Error("bail", <<"T","e","m","p","l","a","t","e","s"," ","d","i","r","e","c","t","o","r","y"," ","n","o","t"," ","f","o","u","n","d",":"," ","t","e","m","p","l","a","t","e","s","/","g","g","e","n">>))
    /\ UNCHANGED <<mapVars, extractVars, loadVars, renderVars>>

(***************************************************************************)
(* The run of the sync command: a walk of at most MaxFiles entries of      *)
(* FileUniverse, then class discovery and rendering.                       *)
(***************************************************************************)
File(path, readable, wellformed, triples) ==
    [path |-> path, readable |-> readable, wellformed |-> wellformed,
     triples |-> triples]

FileUniverse ==
    { File(<<"s","c","h","e","m","a","/","a",".","t","t","l">>, TRUE, TRUE,
           { <<Foo, RDF_TYPE, NamedNode(OWL_NS \o <<"C","l","a","s","s">>)>>,
             <<PropName, RDFS_DOMAIN, Foo>> }),
      File(<<"s","c","h","e","m","a","/","s","u","b","/","d",".","t","t","l">>, TRUE, TRUE,
           { <<Bar, RDF_TYPE, NamedNode(OWL_NS \o <<"C","l","a","s","s">>)>>,
             <<OwlThing, RDF_TYPE, NamedNode(OWL_NS \o <<"C","l","a","s","s">>)>> }),
      File(<<"s","c","h","e","m","a","/","b",".","t","t","l">>, TRUE, FALSE, {}),
      File(<<"s","c","h","e","m","a","/","c",".","t","t","l">>, FALSE, TRUE, {}),
      File(<<"s","c","h","e","m","a","/","n","o","t","e","s",".","t","x","t">>, TRUE, FALSE, {}) }

\* the walks of at most n different entries
RECURSIVE Walks(_)
Walks(n) ==
    IF n = 0 THEN { <<>> }
    ELSE LET shorter == Walks(n - 1)
         IN  shorter \cup
             { Append(p[1], p[2]) :
                 p \in { q \in shorter \X FileUniverse :
                           \A i \in 1..Len(q[1]) : q[1][i] # q[2] } }

RunTemplates ==
    { TeraError,
      TeraOk(<< >>),
      TeraOk(<< [name |-> <<"m","o","d","e","l",".","r","s",".","t","e","r","a">>, output |-> RenderOk(Text(2, TRUE))] >>),
      TeraOk(<< [name |-> <<"m","o","d","e","l",".","r","s",".","t","e","r","a">>, output |-> RenderOk(Text(2, TRUE))],
                [name |-> <<"p","y","/","m","o","d","e","l",".","p","y",".","t","e","r","a">>, output |-> RenderError] >>) }

Init ==
    /\ pc = "load"
    /\ entries \in Walks(MaxFiles)
    /\ err = None
    /\ store = {}
    /\ solutions = <<>>
    /\ classes = <<>>
    /\ lookups = <<>>
    /\ dry_run \in BOOLEAN
    /\ templates_dir_exists \in BOOLEAN
    /\ tera \in RunTemplates
    /\ queue = <<>>
    /\ fs = [exists |-> FALSE, files |-> <<>>]
    /\ fs0 = fs
    /\ stdout = <<>>
    /\ log = <<>>
    /\ input = <<>>
    /\ call = "none"
    /\ mapped = <<>>

Next ==
    \/ LoadEntry
    \/ LoadReturn
    \/ ExtractClassesQuery
    \/ ExtractClassesStep
    \/ ExtractClassesReturn
    \/ TemplatesDirCheck
    \/ RenderBegin
    \/ RenderTemplate
    \/ RenderReturn

Spec == Init /\ [][Next]_vars

\* C5: when a file selected by the loader cannot be read or does not parse,
\* the run fails with an error that carries the path of that file, and no
\* later stage (class discovery, property resolution, rendering, writing)
\* has executed.
C5_LoadErrorCarriesPath ==
    (pc = "failed" /\ err.cause \in {"read", "parse"}) =>
        /\ Contains(err.context, Head(entries).path)
        /\ solutions = <<>> /\ classes = <<>> /\ lookups = <<>>
        /\ queue = <<>> /\ log = <<>> /\ stdout = <<>> /\ fs = fs0

(***************************************************************************)
(* Properties of render_templates.                                         *)
(***************************************************************************)

\* C1: with dry_run = true no filesystem write occurs at any point of the
\* run, aborted runs included: the output directory and its files are as
\* they were before the run.
C1_DryRunWritesNothing == dry_run => fs = fs0

\* a dry run over two templates that ends in success on an output
\* directory that does not exist
C1_Witness ==
    /\ dry_run
    /\ pc = "ok"
    /\ Len(tera.templates) = 2
    /\ Len(stdout) >= 4
    /\ ~fs0.exists
    /\ fs = fs0

\* the templates of the run and how far the loop got
Loaded == tera.templates

InLoop ==
    \/ pc \in {"rendering", "ok"}
    \/ pc = "failed" /\ err.cause \in {"render", "write"}

Visited == Len(Loaded) - Len(queue)

Completed == IF pc = "failed" THEN Visited - 1 ELSE Visited

\* the name of the output file of a template: its name without the
\* directories and without the 5 characters of ".tera"
RefOutputFile(name) ==
    LET base == AfterLastSep(name) IN SubSeq(base, 1, Len(base) - 5)

RECURSIVE RefLog(_)
RefLog(n) ==
    IF n = 0 THEN <<>>
    ELSE RefLog(n - 1) \o
         << [template |-> Loaded[n].name, what |-> "rendered"],
            [template |-> Loaded[n].name,
             what |-> IF dry_run THEN "previewed" ELSE "written"] >>

\* the last of the first n templates that has the output file of template i
LastWriter(i, n) ==
    Greatest({ j \in 1..n : RefOutputFile(Loaded[j].name) = RefOutputFile(Loaded[i].name) })

\* what C2 says of the order and of the end of a run: the templates are
\* visited one at a time in order, a failure ends the run at once, and the
\* run is a success only with every template rendered
SequentialFailFast ==
    /\ \A i \in 1..Completed : Loaded[i].output.ok
    /\ log = RefLog(Completed) \o
             IF pc = "failed" /\ err.cause = "write"
             THEN << [template |-> Loaded[Visited].name, what |-> "rendered"] >>
             ELSE << >>
    /\ (pc = "failed" /\ err.cause = "render") => ~Loaded[Visited].output.ok
    /\ pc = "ok" => Completed = Len(Loaded)

\* C2 as claimed: templates are processed one at a time in sequence; when
\* rendering or writing template k fails the run ends in failure at once and
\* no later template is rendered, previewed or written; every file written
\* for the templates before k keeps the content that was written; a run
\* reports success only if every template was rendered or previewed.
C2_FailFastNoRollback ==
    InLoop =>
        /\ SequentialFailFast
        /\ ~dry_run =>
              \A i \in 1..Completed :
                  /\ RefOutputFile(Loaded[i].name) \in DOMAIN fs.files
                  /\ fs.files[RefOutputFile(Loaded[i].name)]
                        = Loaded[LastWriter(i, Completed)].output.text

\* C2 as amended: the same, where a file written for the templates before k
\* keeps the content last written to it unless the failed write of template
\* k was to that same file.
C2_FailFastNoRollbackOfOtherFiles ==
    InLoop =>
        /\ SequentialFailFast
        /\ ~dry_run =>
              \A i \in 1..Completed :
                  \/ /\ pc = "failed" /\ err.cause = "write"
                     /\ RefOutputFile(Loaded[Visited].name) = RefOutputFile(Loaded[i].name)
                  \/ /\ RefOutputFile(Loaded[i].name) \in DOMAIN fs.files
                     /\ fs.files[RefOutputFile(Loaded[i].name)]
                           = Loaded[LastWriter(i, Completed)].output.text

\* a run that wrote the file of its first template over a stale file and
\* failed to render its second template
C2_Witness ==
    /\ pc = "failed" /\ err.cause = "render"
    /\ ~dry_run
    /\ Visited = 2
    /\ Len(queue) = 0
    /\ Loaded[1].name = <<"m","o","d","e","l",".","r","s",".","t","e","r","a">>
    /\ fs0.files # <<>>
    /\ fs.files[<<"m","o","d","e","l",".","r","s">>] = Loaded[1].output.text
    /\ Loaded[1].output.text # <<>>

\* the number of lines of a text: its line feeds, and one more for a last
\* line without line feed
RefLineCount(text) ==
    Cardinality({ i \in 1..Len(text) : text[i] = "\n" })
        + IF text # <<>> /\ text[Len(text)] # "\n" THEN 1 ELSE 0

\* the first n lines of a text of at least n lines, without the line feed of
\* the n-th
RefFirstLines(text, n) ==
    IF n = 0 THEN <<>>
    ELSE LET feeds == { i \in 1..Len(text) : text[i] = "\n" }
             ends  == { i \in feeds \cup {Len(text) + 1} :
                          Cardinality({ j \in feeds : j < i }) = n - 1 }
         IN  SubSeq(text, 1, Least(ends) - 1)

RefNumeral(n) ==
    LET d == <<"0", "1", "2", "3", "4", "5", "6", "7", "8", "9">>
    IN  IF n < 10 THEN <<d[n + 1]>> ELSE <<d[(n \div 10) + 1], d[(n % 10) + 1]>>

\* what the preview of one rendered template is to print
RefPreview(template) ==
    LET text == template.output.text
        n    == RefLineCount(text)
    IN  << <<"\\","n","-","-","-"," ","o","u","t","/">> \o RefOutputFile(template.name) \o <<" ","-","-","-">>,
           RefFirstLines(text, IF n < PreviewLines THEN n ELSE PreviewLines) >>
        \o IF n > PreviewLines
           THEN << <<".",".","."," ","(">> \o RefNumeral(n - PreviewLines) \o <<" ","m","o","r","e"," ","l","i","n","e","s",")">> >>
           ELSE << >>

RECURSIVE RefStdout(_)
RefStdout(n) ==
    IF n = 0 THEN <<>> ELSE RefStdout(n - 1) \o RefPreview(Loaded[n])

\* C9: in dry-run mode the preview of a rendered output of n lines prints
\* the first min(n, 20) lines in order, then "... (n - 20 more lines)" if
\* n > 20, and no such message if n <= 20.
C9_PreviewFirstTwentyLines ==
    (dry_run /\ InLoop) => stdout = RefStdout(Completed)

\* a dry run that previewed a template of 25 lines
C9_Witness ==
    /\ dry_run
    /\ pc = "ok"
    /\ Len(Loaded) = 1
    /\ RefLineCount(Loaded[1].output.text) = 25
    /\ Len(stdout) = 3
    /\ RefLineCount(stdout[2]) = 20
    /\ stdout[3] = <<".",".","."," ","(","5"," ","m","o","r","e"," ","l","i","n","e","s",")">>

====
